---- MODULE Spec2Model ----
(***************************************************************************)
(* The activity tracker (src/Tracking/tracker.py) and the staleness scan   *)
(* of the dashboard (src/dashboard/dashboard.py).                          *)
(*                                                                         *)
(* Time is an integer count of clock units, SCALE units to the second, so  *)
(* that durations below one second exist.  A string is a sequence of       *)
(* pieces ("chrome", ".", "exe"), so that str.replace acts on it.          *)
(***************************************************************************)
EXTENDS Integers, Sequences, FiniteSets, TLC

\* --------------------------------------------------------------- bounds
SCALE == 2

MaxTime == 8

Midnight == 4

\* calls of update_database made to the aggregator alone
MaxCalls == 3

\* longest duration, in clock units, given to the aggregator alone
MaxDuration == 3

\* seconds of an uninterrupted Active segment explored
SteadySeconds == 300

\* clock units the dashboard is watched for
DashTime == 3

\* seconds within which a stop request is made when the thread's end is checked
LiveTime == 4

\* longest application name, in characters, given to the escaping
MaxNameLen == 2

\* calls of update_database made with such names
MaxNameCalls == 2

\* ------------------------------------------------------------ constants
IDLE_THRESHOLD_SECONDS == 60

SWITCH_CONFIRM_SECONDS == 3

\* None, for a time
NoTime == -1

\* join(timeout=2)
JOIN_TIMEOUT_SECONDS == 2

\* timedelta(minutes=2)
STALE_MINUTES == 2

\* ---------------------------------------------------------------- names
EmptyName == << >>

Unknown == <<"Unknown">>

IdleName == <<"idle">>

AppA == <<"chrome", ".", "exe">>

AppB == <<"code">>

\* what get_active_app returns in the runs explored
AppNames == {AppA, AppB, Unknown}

\* idle_seconds sampled: at the threshold, and above it
IdleSamples == {IDLE_THRESHOLD_SECONDS, IDLE_THRESHOLD_SECONDS + 1}

user_id == "u1"

VARIABLES
    now,                  \* time.time(), in clock units
    wake,                 \* when the running time.sleep(1) returns
    pc,                   \* position of the tracker thread in run()
    running, current_app, start_time, idle,
    potential_next_app, switch_pending_time,
    idle_seconds, active_app_name,      \* locals of run()
    status_label,         \* text of App.status_label
    gpc,                  \* position of the GUI thread in on_closing()/stop()
    stop_duration, stop_idle,           \* locals of stop()
    join_deadline,
    client,               \* whether the MongoDB client exists
    collection,           \* daily_summary: doc id -> document
    \* -- observers: what an outside observer of the run records
    run_name, run_start,  \* the run of equal, not idle samples in progress
    s_idle,               \* whether the latest sample was above the idle threshold
    snap,                 \* the tracker's fields when the tick's sample was taken
    tick_calls,           \* update_database calls of run() in the tick so far
    spent,                \* classification -> clock units spent in it
    seg,                  \* number of the open segment
    flushed,              \* segment number -> update_database calls made for it
    stop_seg,             \* the segment whose start_time stop() read
    reverts,              \* pending switches cancelled in the open segment
    \* -- the dashboard (src/dashboard/dashboard.py)
    scheduled,            \* after(0, populate_tree, user_statuses) calls not yet run
    user_tree,            \* rows of UserStatusFrame.user_tree
    scan_time,            \* observer: the clock when the rows shown were derived
    last_scan,            \* observer: how the latest update_user_list call ended
    \* -- the tracker's window (App, src/Tracking/tracker.py)
    tree                  \* rows of App.tree

tracker_vars == <<pc, running, current_app, start_time, idle, potential_next_app,
                  switch_pending_time, idle_seconds, active_app_name, status_label>>

gui_vars == <<gpc, stop_duration, stop_idle, join_deadline>>

stream_vars == <<run_name, run_start, s_idle>>

tick_vars == <<snap, tick_calls>>

ledger_vars == <<spent, seg, flushed, stop_seg, reverts>>

observer_vars == <<stream_vars, tick_vars, ledger_vars>>

dashboard_vars == <<scheduled, user_tree, scan_time, last_scan>>

vars == <<now, wake, tracker_vars, gui_vars, client, collection, observer_vars,
          dashboard_vars, tree>>

\* ------------------------------------------------------- dict helpers
Get(d, k, default) == IF k \in DOMAIN d THEN d[k] ELSE default

Put(d, k, v) == [x \in (DOMAIN d) \cup {k} |-> IF x = k THEN v ELSE d[x]]

EmptyDict == [x \in {} |-> 0]

\* sum(d.values())
RECURSIVE SumOver(_, _)
SumOver(S, f) ==
    IF S = {} THEN 0
    ELSE LET x == CHOOSE y \in S : TRUE
         IN  f[x] + SumOver(S \ {x}, f)

\* str.replace(old, new) on a string of pieces
Replace(s, old, new) == [i \in DOMAIN s |-> IF s[i] = old THEN new ELSE s[i]]

\* datetime.now().strftime("%Y-%m-%d")
TodayStr(t) == IF t < Midnight * SCALE THEN "day1" ELSE "day2"

\* ------------------------------------------------ ActivityTracker.update_database
\* mutant: only the duration is looked at
Suppressed_DurationOnly(activity_name, duration_seconds) ==
    duration_seconds < 1 * SCALE

Suppressed(activity_name, duration_seconds) ==
    \/ duration_seconds < 1 * SCALE
    \/ activity_name = EmptyName
    \/ activity_name = Unknown

\* mutant: the write sets the counter to the duration
IncrementField_Overwrites(coll, doc_id, today_str, path, amount) ==
    LET doc == IF doc_id \in DOMAIN coll
               THEN coll[doc_id]
               ELSE [user_id |-> user_id, date |-> today_str]
        new == IF path[1] = "total_idle_seconds"
               THEN Put(doc, "total_idle_seconds", amount)
               ELSE LET apps == Get(doc, "applications", EmptyDict)
                    IN  Put(doc, "applications", Put(apps, path[2], amount))
    IN  Put(coll, doc_id, new)

\* the $inc of update_one, with upsert and $setOnInsert
IncrementField(coll, doc_id, today_str, path, amount) ==
    LET doc == IF doc_id \in DOMAIN coll
               THEN coll[doc_id]
               ELSE [user_id |-> user_id, date |-> today_str]
        new == IF path[1] = "total_idle_seconds"
               THEN Put(doc, "total_idle_seconds",
                        Get(doc, "total_idle_seconds", 0) + amount)
               ELSE LET apps == Get(doc, "applications", EmptyDict)
                    IN  Put(doc, "applications",
                            Put(apps, path[2], Get(apps, path[2], 0) + amount))
    IN  Put(coll, doc_id, new)

UpdateField(activity_name) ==
    IF activity_name = IdleName
    THEN <<"total_idle_seconds">>
    ELSE <<"applications", Replace(activity_name, ".", "_")>>

\* mutant: the record is the one of the day the segment started
update_database_DayOfStart(coll, activity_name, duration_seconds, t) ==
    IF Suppressed(activity_name, duration_seconds) THEN coll
    ELSE IF ~client THEN coll
    ELSE IncrementField(coll, <<user_id, TodayStr(t - duration_seconds)>>,
                        TodayStr(t - duration_seconds),
                        UpdateField(activity_name), duration_seconds)

update_database(coll, activity_name, duration_seconds, t) ==
    IF Suppressed(activity_name, duration_seconds) THEN coll
    ELSE IF ~client THEN coll
    ELSE IncrementField(coll, <<user_id, TodayStr(t)>>, TodayStr(t),
                        UpdateField(activity_name), duration_seconds)

\* ------------------------------------------------ observers
Cls(is_idle, app) == IF is_idle THEN <<"Idle">> ELSE <<"Active", app>>

Add(d, k, n) == Put(d, k, Get(d, k, 0) + n)

NoSnap == [valid |-> FALSE, idle |-> FALSE, current_app |-> EmptyName,
           start_time |-> 0, potential_next_app |-> EmptyName,
           switch_pending_time |-> NoTime, s_idle |-> FALSE]

TakeSnap == [valid |-> TRUE, idle |-> idle, current_app |-> current_app,
             start_time |-> start_time, potential_next_app |-> potential_next_app,
             switch_pending_time |-> switch_pending_time, s_idle |-> s_idle]

\* a call of update_database made by run() or handle_potential_switch()
Flush(activity_name, duration_seconds) ==
    /\ collection' = update_database(collection, activity_name, duration_seconds, now)
    /\ tick_calls' = Append(tick_calls, <<activity_name, duration_seconds>>)
    /\ flushed' = Add(flushed, seg, 1)

\* ------------------------------------------------ ActivityTracker.clear_pending_switch
ClearPending ==
    /\ potential_next_app' = EmptyName
    /\ switch_pending_time' = NoTime

\* ------------------------------------------------ ActivityTracker.__init__, App.__init__
Init ==
    /\ now = 0
    /\ wake = 0
    /\ pc = "start"
    /\ running = TRUE
    /\ current_app = EmptyName
    /\ start_time = 0
    /\ idle = FALSE
    /\ potential_next_app = EmptyName
    /\ switch_pending_time = NoTime
    /\ idle_seconds = 0
    /\ active_app_name = EmptyName
    /\ status_label = <<"Initializing...">>
    /\ gpc = "mainloop"
    /\ stop_duration = 0
    /\ stop_idle = FALSE
    /\ join_deadline = NoTime
    /\ client = TRUE
    /\ collection = EmptyDict
    /\ run_name = EmptyName
    /\ run_start = NoTime
    /\ s_idle = FALSE
    /\ snap = NoSnap
    /\ tick_calls = << >>
    /\ spent = EmptyDict
    /\ seg = 1
    /\ flushed = EmptyDict
    /\ stop_seg = 0
    /\ reverts = 0
    /\ scheduled = << >>
    /\ user_tree = << >>
    /\ scan_time = NoTime
    /\ last_scan = "none"
    /\ tree = << >>

\* ------------------------------------------------ ActivityTracker.run
\* lines 62-63
RunStartFrom(names) ==
    /\ pc = "start"
    /\ \E name \in names :
          /\ current_app' = name
          /\ run_name' = name
    /\ run_start' = now
    /\ start_time' = now
    /\ pc' = "while"
    /\ UNCHANGED <<now, wake, running, idle, potential_next_app, switch_pending_time,
                   idle_seconds, active_app_name, status_label, gui_vars, client, dashboard_vars, tree,
                   collection, s_idle, tick_vars, ledger_vars>>

RunStart == RunStartFrom(AppNames)

\* mutant: the loop goes on whatever the running flag says
RunLoop_IgnoresStop ==
    /\ pc = "while"
    /\ pc' = "sample"
    /\ UNCHANGED <<now, wake, running, current_app, start_time, idle,
                   potential_next_app, switch_pending_time, idle_seconds,
                   active_app_name, status_label, gui_vars, client, dashboard_vars, tree,
                   collection, observer_vars>>

\* line 64
RunLoop ==
    /\ pc = "while"
    /\ pc' = IF running THEN "sample" ELSE "done"
    /\ UNCHANGED <<now, wake, running, current_app, start_time, idle,
                   potential_next_app, switch_pending_time, idle_seconds,
                   active_app_name, status_label, gui_vars, client, dashboard_vars, tree, collection,
                   observer_vars>>

\* what the observer of the samples records of one sample
Observe(secs, name) ==
    /\ s_idle' = (secs > IDLE_THRESHOLD_SECONDS)
    /\ IF secs > IDLE_THRESHOLD_SECONDS
       THEN /\ run_name' = name
            /\ run_start' = NoTime
       ELSE IF run_start # NoTime /\ run_name = name
            THEN UNCHANGED <<run_name, run_start>>
            ELSE /\ run_name' = name
                 /\ run_start' = now

\* lines 65-66, with the samples the Signal Source may give
SampleFrom(seconds, names) ==
    /\ pc = "sample"
    /\ \E secs \in seconds, name \in names :
          /\ idle_seconds' = secs
          /\ active_app_name' = name
          /\ Observe(secs, name)
    /\ snap' = TakeSnap
    /\ tick_calls' = << >>
    /\ pc' = "l67"
    /\ UNCHANGED <<now, wake, running, current_app, start_time, idle,
                   potential_next_app, switch_pending_time, status_label, gui_vars,
                   client, dashboard_vars, tree, collection, ledger_vars>>

Sample == SampleFrom(IdleSamples, AppNames)

\* lines 67-69
IdleEnterFlush ==
    /\ pc = "l67"
    /\ idle_seconds > IDLE_THRESHOLD_SECONDS
    /\ ~idle
    /\ Flush(current_app, now - start_time)
    /\ pc' = "l70"
    /\ UNCHANGED <<now, wake, running, current_app, start_time, idle,
                   potential_next_app, switch_pending_time, idle_seconds,
                   active_app_name, status_label, gui_vars, client, dashboard_vars, tree,
                   stream_vars, snap, spent, seg, stop_seg, reverts>>

\* line 70
IdleEnterFlag ==
    /\ pc = "l70"
    /\ idle' = TRUE
    /\ pc' = "l71"
    /\ UNCHANGED <<now, wake, running, current_app, start_time, potential_next_app,
                   switch_pending_time, idle_seconds, active_app_name, status_label,
                   gui_vars, client, dashboard_vars, tree, collection, observer_vars>>

\* line 71
IdleEnterReset ==
    /\ pc = "l71"
    /\ start_time' = now
    /\ seg' = seg + 1
    /\ reverts' = 0
    /\ pc' = "l72"
    /\ UNCHANGED <<now, wake, running, current_app, idle, idle_seconds,
                   potential_next_app, switch_pending_time,
                   active_app_name, status_label, gui_vars, client, dashboard_vars, tree,
                   collection, stream_vars, tick_vars, spent, flushed, stop_seg>>

\* mutant: going idle leaves the pending switch in place
IdleEnterClear_KeepsPending ==
    /\ pc = "l72"
    /\ pc' = "status"
    /\ UNCHANGED <<now, wake, running, current_app, start_time, idle,
                   potential_next_app, switch_pending_time, idle_seconds,
                   active_app_name, status_label, gui_vars, client, dashboard_vars, tree,
                   collection, observer_vars>>

\* line 72
IdleEnterClear ==
    /\ pc = "l72"
    /\ ClearPending
    /\ pc' = "status"
    /\ UNCHANGED <<now, wake, running, current_app, start_time, idle, idle_seconds,
                   active_app_name, status_label, gui_vars, client, dashboard_vars, tree,
                   collection, observer_vars>>

\* lines 67-68, already idle
IdleStay ==
    /\ pc = "l67"
    /\ idle_seconds > IDLE_THRESHOLD_SECONDS
    /\ idle
    /\ pc' = "status"
    /\ UNCHANGED <<now, wake, running, current_app, start_time, idle,
                   potential_next_app, switch_pending_time, idle_seconds,
                   active_app_name, status_label, gui_vars, client, dashboard_vars, tree, collection,
                   observer_vars>>

\* mutant: the new segment is started before the idle segment is flushed
IdleExitFlush_ResetFirst ==
    /\ pc = "l67"
    /\ ~(idle_seconds > IDLE_THRESHOLD_SECONDS)
    /\ idle
    /\ start_time' = now
    /\ Flush(IdleName, now - start_time')
    /\ pc' = "l77"
    /\ UNCHANGED <<now, wake, running, current_app, idle,
                   potential_next_app, switch_pending_time, idle_seconds,
                   active_app_name, status_label, gui_vars, client, dashboard_vars, tree,
                   stream_vars, snap, spent, seg, stop_seg, reverts>>

\* lines 74-76
IdleExitFlush ==
    /\ pc = "l67"
    /\ ~(idle_seconds > IDLE_THRESHOLD_SECONDS)
    /\ idle
    /\ Flush(IdleName, now - start_time)
    /\ pc' = "l77"
    /\ UNCHANGED <<now, wake, running, current_app, start_time, idle,
                   potential_next_app, switch_pending_time, idle_seconds,
                   active_app_name, status_label, gui_vars, client, dashboard_vars, tree,
                   stream_vars, snap, spent, seg, stop_seg, reverts>>

\* line 77
IdleExitFlag ==
    /\ pc = "l77"
    /\ idle' = FALSE
    /\ pc' = "l78"
    /\ UNCHANGED <<now, wake, running, current_app, start_time, potential_next_app,
                   switch_pending_time, idle_seconds, active_app_name, status_label,
                   gui_vars, client, dashboard_vars, tree, collection, observer_vars>>

\* mutant: leaving idle keeps the app of before the idle episode
IdleExitApp_KeepsApp ==
    /\ pc = "l78"
    /\ pc' = "l79"
    /\ UNCHANGED <<now, wake, running, current_app, start_time, idle,
                   potential_next_app, switch_pending_time, idle_seconds,
                   active_app_name, status_label, gui_vars, client, dashboard_vars, tree, collection,
                   observer_vars>>

\* line 78
IdleExitApp ==
    /\ pc = "l78"
    /\ current_app' = active_app_name
    /\ pc' = "l79"
    /\ UNCHANGED <<now, wake, running, start_time, idle, potential_next_app,
                   switch_pending_time, idle_seconds, active_app_name, status_label,
                   gui_vars, client, dashboard_vars, tree, collection, observer_vars>>

\* line 79
IdleExitReset ==
    /\ pc = "l79"
    /\ start_time' = now
    /\ seg' = seg + 1
    /\ reverts' = 0
    /\ pc' = "l80"
    /\ UNCHANGED <<now, wake, running, current_app, idle, potential_next_app,
                   switch_pending_time, idle_seconds, active_app_name, status_label,
                   gui_vars, client, dashboard_vars, tree, collection, stream_vars, tick_vars, spent,
                   flushed, stop_seg>>

\* lines 74-75, not idle before
ActiveStay ==
    /\ pc = "l67"
    /\ ~(idle_seconds > IDLE_THRESHOLD_SECONDS)
    /\ ~idle
    /\ pc' = "l80"
    /\ UNCHANGED <<now, wake, running, current_app, start_time, idle,
                   potential_next_app, switch_pending_time, idle_seconds,
                   active_app_name, status_label, gui_vars, client, dashboard_vars, tree, collection,
                   observer_vars>>

\* mutant: a sample back at the current app leaves the pending switch in place
SameApp_KeepsPending ==
    /\ pc = "l80"
    /\ ~(active_app_name # current_app)
    /\ pc' = "status"
    /\ UNCHANGED <<now, wake, running, current_app, start_time, idle,
                   potential_next_app, switch_pending_time, idle_seconds,
                   active_app_name, status_label, gui_vars, client, dashboard_vars, tree, collection,
                   observer_vars>>

\* lines 80, 82-83
SameApp ==
    /\ pc = "l80"
    /\ ~(active_app_name # current_app)
    /\ ClearPending
    /\ reverts' = IF switch_pending_time # NoTime THEN reverts + 1 ELSE reverts
    /\ pc' = "status"
    /\ UNCHANGED <<now, wake, running, current_app, start_time, idle, idle_seconds,
                   active_app_name, status_label, gui_vars, client, dashboard_vars, tree, collection,
                   stream_vars, tick_vars, spent, seg, flushed, stop_seg>>

\* ------------------------------------------------ ActivityTracker.handle_potential_switch
\* mutant: a candidate is dated from the sample before the one that showed it
PendingStart_Backdated ==
    /\ pc = "l80"
    /\ active_app_name # current_app
    /\ potential_next_app # active_app_name
    /\ potential_next_app' = active_app_name
    /\ switch_pending_time' = now - 2 * SCALE
    /\ pc' = "status"
    /\ UNCHANGED <<now, wake, running, current_app, start_time, idle, idle_seconds,
                   active_app_name, status_label, gui_vars, client, dashboard_vars, tree,
                   collection, observer_vars>>

\* mutant: a new candidate inherits the first-seen time of the candidate it replaces
PendingStart_KeepsTimer ==
    /\ pc = "l80"
    /\ active_app_name # current_app
    /\ potential_next_app # active_app_name
    /\ potential_next_app' = active_app_name
    /\ switch_pending_time' = IF switch_pending_time = NoTime THEN now
                              ELSE switch_pending_time
    /\ pc' = "status"
    /\ UNCHANGED <<now, wake, running, current_app, start_time, idle, idle_seconds,
                   active_app_name, status_label, gui_vars, client, dashboard_vars, tree,
                   collection, observer_vars>>

\* lines 88-90
PendingStart ==
    /\ pc = "l80"
    /\ active_app_name # current_app
    /\ potential_next_app # active_app_name
    /\ potential_next_app' = active_app_name
    /\ switch_pending_time' = now
    /\ pc' = "status"
    /\ UNCHANGED <<now, wake, running, current_app, start_time, idle, idle_seconds,
                   active_app_name, status_label, gui_vars, client, dashboard_vars, tree, collection,
                   observer_vars>>

\* mutant: a candidate is confirmed from the threshold on, not only past it
Confirmed_AtThreshold == now - switch_pending_time >= SWITCH_CONFIRM_SECONDS * SCALE

\* line 92
Confirmed == now - switch_pending_time > SWITCH_CONFIRM_SECONDS * SCALE

\* lines 91-92, not yet confirmed
PendingWait ==
    /\ pc = "l80"
    /\ active_app_name # current_app
    /\ ~(potential_next_app # active_app_name)
    /\ switch_pending_time # NoTime
    /\ ~Confirmed
    /\ pc' = "status"
    /\ UNCHANGED <<now, wake, running, current_app, start_time, idle,
                   potential_next_app, switch_pending_time, idle_seconds,
                   active_app_name, status_label, gui_vars, client, dashboard_vars, tree, collection,
                   observer_vars>>

\* mutant: the flush at a switch runs to now, not to the first sample of the new app
SwitchDuration_ToNow == now - start_time

\* line 93
SwitchDuration == switch_pending_time - start_time

\* lines 91-94
SwitchFlush ==
    /\ pc = "l80"
    /\ active_app_name # current_app
    /\ ~(potential_next_app # active_app_name)
    /\ switch_pending_time # NoTime
    /\ Confirmed
    /\ Flush(current_app, SwitchDuration)
    /\ pc' = "l95"
    /\ UNCHANGED <<now, wake, running, current_app, start_time, idle,
                   potential_next_app, switch_pending_time, idle_seconds,
                   active_app_name, status_label, gui_vars, client, dashboard_vars, tree,
                   stream_vars, snap, spent, seg, stop_seg, reverts>>

\* the observer moves the time since the sampled app first appeared to that app
Reattribute(from_app, to_app) ==
    LET moved == IF run_start = NoTime THEN 0 ELSE now - run_start
    IN  Add(Add(spent, Cls(FALSE, from_app), 0 - moved), Cls(FALSE, to_app), moved)

\* line 95
SwitchApp ==
    /\ pc = "l95"
    /\ current_app' = potential_next_app
    /\ spent' = IF gpc = "mainloop"
                THEN Reattribute(current_app, run_name)
                ELSE spent
    /\ pc' = "l96"
    /\ UNCHANGED <<now, wake, running, start_time, idle, potential_next_app,
                   switch_pending_time, idle_seconds, active_app_name, status_label,
                   gui_vars, client, dashboard_vars, tree, collection, stream_vars, tick_vars, seg,
                   flushed, stop_seg, reverts>>

\* mutant: the new segment starts at the commit, not at the first sample of its app
SwitchReset_AtNow ==
    /\ pc = "l96"
    /\ start_time' = now
    /\ ClearPending
    /\ seg' = seg + 1
    /\ reverts' = 0
    /\ pc' = "status"
    /\ UNCHANGED <<now, wake, running, current_app, idle, idle_seconds,
                   active_app_name, status_label, gui_vars, client, dashboard_vars, tree, collection,
                   stream_vars, tick_vars, spent, flushed, stop_seg>>

\* lines 96-97
SwitchReset ==
    /\ pc = "l96"
    /\ start_time' = switch_pending_time
    /\ ClearPending
    /\ seg' = seg + 1
    /\ reverts' = 0
    /\ pc' = "status"
    /\ UNCHANGED <<now, wake, running, current_app, idle, idle_seconds,
                   active_app_name, status_label, gui_vars, client, dashboard_vars, tree, collection,
                   stream_vars, tick_vars, spent, flushed, stop_seg>>

\* lines 73 and 84: the text App.update_status is given
StatusText ==
    IF idle_seconds > IDLE_THRESHOLD_SECONDS
    THEN <<"Status: Idle", idle_seconds>>
    ELSE <<"Active App", current_app>>

\* lines 73 and 84, then line 85 starts to sleep; the tick is over
UpdateStatus ==
    /\ pc = "status"
    /\ status_label' = StatusText
    /\ wake' = now + 1 * SCALE
    /\ snap' = NoSnap
    /\ tick_calls' = << >>
    /\ pc' = "sleeping"
    /\ UNCHANGED <<now, running, current_app, start_time, idle, potential_next_app,
                   switch_pending_time, idle_seconds, active_app_name, gui_vars,
                   client, dashboard_vars, tree, collection, stream_vars, ledger_vars>>

\* line 85: time passes while the thread sleeps (the statements of stop() take none)
AdvanceTo(limit) ==
    /\ pc = "sleeping"
    /\ now < wake
    /\ now < limit
    /\ gpc \in {"mainloop", "join", "destroyed"}
    /\ now' = now + 1
    /\ spent' = IF gpc = "mainloop"
                THEN Add(spent, Cls(idle, current_app), 1)
                ELSE spent
    /\ UNCHANGED <<wake, tracker_vars, gui_vars, client, dashboard_vars, tree, collection, stream_vars,
                   tick_vars, seg, flushed, stop_seg, reverts>>

Advance == AdvanceTo(MaxTime * SCALE)

\* line 85 returns
WakeUp ==
    /\ pc = "sleeping"
    /\ now >= wake
    /\ pc' = "while"
    /\ UNCHANGED <<now, wake, running, current_app, start_time, idle,
                   potential_next_app, switch_pending_time, idle_seconds,
                   active_app_name, status_label, gui_vars, client, dashboard_vars, tree, collection,
                   observer_vars>>

\* ------------------------------------------------ App.on_closing, ActivityTracker.stop
\* lines 312-315 and 133
OnClosing ==
    /\ gpc = "mainloop"
    /\ running' = FALSE
    /\ gpc' = "s134"
    /\ UNCHANGED <<now, wake, pc, current_app, start_time, idle, potential_next_app,
                   switch_pending_time, idle_seconds, active_app_name, status_label,
                   stop_duration, stop_idle, join_deadline, client, dashboard_vars, tree, collection,
                   observer_vars>>

\* line 134
StopDuration ==
    /\ gpc = "s134"
    /\ stop_duration' = now - start_time
    /\ stop_seg' = seg
    /\ gpc' = "s135"
    /\ UNCHANGED <<now, wake, tracker_vars, stop_idle, join_deadline, client, dashboard_vars, tree,
                   collection, stream_vars, tick_vars, spent, seg, flushed, reverts>>

\* line 135
StopBranch ==
    /\ gpc = "s135"
    /\ stop_idle' = idle
    /\ gpc' = "s136"
    /\ UNCHANGED <<now, wake, tracker_vars, stop_duration, join_deadline, client, dashboard_vars, tree,
                   collection, observer_vars>>

\* lines 136 and 138: the activity stop() names
StopActivity == IF stop_idle THEN IdleName ELSE current_app

\* lines 136 and 138, then line 316 starts to wait
StopFlush ==
    /\ gpc = "s136"
    /\ collection' = update_database(collection, StopActivity, stop_duration, now)
    /\ flushed' = Add(flushed, stop_seg, 1)
    /\ join_deadline' = now + JOIN_TIMEOUT_SECONDS * SCALE
    /\ gpc' = "join"
    /\ UNCHANGED <<now, wake, tracker_vars, stop_duration, stop_idle, client, dashboard_vars, tree,
                   stream_vars, tick_vars, spent, seg, stop_seg, reverts>>

\* lines 316-317
Join ==
    /\ gpc = "join"
    /\ (pc = "done" \/ now >= join_deadline)
    /\ gpc' = "destroyed"
    /\ UNCHANGED <<now, wake, tracker_vars, stop_duration, stop_idle, join_deadline,
                   client, dashboard_vars, tree, collection, observer_vars>>

\* the statements of run() after its samples
RunSteps ==
    \/ RunLoop
    \/ IdleEnterFlush \/ IdleEnterFlag \/ IdleEnterReset \/ IdleEnterClear \/ IdleStay
    \/ IdleExitFlush \/ IdleExitFlag \/ IdleExitApp \/ IdleExitReset \/ ActiveStay
    \/ SameApp \/ PendingStart \/ PendingWait
    \/ SwitchFlush \/ SwitchApp \/ SwitchReset
    \/ UpdateStatus \/ WakeUp

\* the steps of run() after its samples, with the time its sleep takes
RunBody == RunSteps \/ Advance

TrackerStep == RunStart \/ Sample \/ RunBody

GuiStep == OnClosing \/ StopDuration \/ StopBranch \/ StopFlush \/ Join

Next == TrackerStep \/ GuiStep

Spec == Init /\ [][Next]_vars

\* ------------------------------------------------ a store write that raises
\* the update_database call run() is about to make: line 69, 76 or 94
PendingCall ==
    IF pc = "l67" /\ idle_seconds > IDLE_THRESHOLD_SECONDS /\ ~idle
    THEN <<current_app, now - start_time>>
    ELSE IF pc = "l67" /\ ~(idle_seconds > IDLE_THRESHOLD_SECONDS) /\ idle
    THEN <<IdleName, now - start_time>>
    ELSE IF /\ pc = "l80"
            /\ active_app_name # current_app
            /\ ~(potential_next_app # active_app_name)
            /\ switch_pending_time # NoTime
            /\ Confirmed
    THEN <<current_app, SwitchDuration>>
    ELSE << >>

\* line 130 raises (the store is unreachable or rejects the write): nothing in
\* update_database, run() or handle_potential_switch() catches it, and the thread
\* of run() ends with the exception
UpdateOneRaises ==
    /\ PendingCall # << >>
    /\ ~Suppressed(PendingCall[1], PendingCall[2])
    /\ client
    /\ tick_calls' = Append(tick_calls, PendingCall)
    /\ pc' = "raised"
    /\ UNCHANGED <<now, wake, running, current_app, start_time, idle,
                   potential_next_app, switch_pending_time, idle_seconds,
                   active_app_name, status_label, gui_vars, client, dashboard_vars, tree,
                   collection, stream_vars, snap, ledger_vars>>

NextFail == Next \/ UpdateOneRaises

SpecFail == Init /\ [][NextFail]_vars

\* ------------------------------------------------ any process name in focus
\* lines 103-113: process.name() is whatever the executable is called, "idle" included
SignalNames == {AppB, IdleName}

SignalStart == RunStartFrom(SignalNames)

SignalSample == SampleFrom(IdleSamples, SignalNames)

NextSignal == SignalStart \/ SignalSample \/ RunBody

SpecSignal == Init /\ [][NextSignal]_vars

\* ------------------------------------------------ a sample with no process name
\* lines 103-113: process.name() may be the empty string
BlankNames == {AppB, EmptyName}

BlankStart == RunStartFrom(BlankNames)

BlankSample == SampleFrom(IdleSamples, BlankNames)

\* line 92 with switch_pending_time None: time.time() - None raises TypeError,
\* nothing catches it and the thread of run() ends with the exception
PendingCompareRaises ==
    /\ pc = "l80"
    /\ active_app_name # current_app
    /\ ~(potential_next_app # active_app_name)
    /\ switch_pending_time = NoTime
    /\ pc' = "raised"
    /\ UNCHANGED <<now, wake, running, current_app, start_time, idle,
                   potential_next_app, switch_pending_time, idle_seconds,
                   active_app_name, status_label, gui_vars, client, dashboard_vars, tree,
                   collection, observer_vars>>

NextBlank == BlankStart \/ BlankSample \/ RunBody \/ PendingCompareRaises

SpecBlank == Init /\ [][NextBlank]_vars

\* ------------------------------------------------ a stop request and the thread's end
\* line 85: time passes up to LiveTime while the tracker runs, and after a stop
\* request for as long as the sleep in progress can last
LiveAdvance == AdvanceTo(IF running THEN LiveTime * SCALE ELSE (LiveTime + 1) * SCALE)

LiveTracker == RunStart \/ Sample \/ RunSteps \/ LiveAdvance

NextLive == LiveTracker \/ GuiStep

\* the tracker thread and the GUI thread are both scheduled again and again, and
\* the calls they make return
SpecLive == Init /\ [][NextLive]_vars /\ WF_vars(LiveTracker) /\ WF_vars(GuiStep)

\* ------------------------------------------------ the aggregator alone
\* every activity name and duration update_database can be called with
AggNames == {EmptyName, Unknown, IdleName, AppA, AppB}

AggDurations == (0 - 1) .. MaxDuration

\* lines 115-130, called with any arguments
AggFlush ==
    /\ Len(tick_calls) < MaxCalls
    /\ \E name \in AggNames, d \in AggDurations : Flush(name, d)
    /\ UNCHANGED <<now, wake, tracker_vars, gui_vars, client, dashboard_vars, tree,
                   stream_vars, snap, spent, seg, stop_seg, reverts>>

\* line 121: the date changes between two calls
AggClock ==
    /\ now < Midnight * SCALE
    /\ now' = Midnight * SCALE
    /\ UNCHANGED <<wake, tracker_vars, gui_vars, client, collection, observer_vars,
                   dashboard_vars, tree>>

NextAgg == AggFlush \/ AggClock

SpecAgg == Init /\ [][NextAgg]_vars

\* ------------------------------------------------ one uninterrupted Active segment
\* lines 65-66: the user stays in the same app and is never idle
SteadySample == SampleFrom({IDLE_THRESHOLD_SECONDS}, {current_app})

SteadyAdvance == AdvanceTo(SteadySeconds * SCALE)

NextSteady ==
    \/ RunStart \/ RunLoop \/ SteadySample \/ ActiveStay \/ SameApp
    \/ UpdateStatus \/ SteadyAdvance \/ WakeUp

SpecSteady == Init /\ [][NextSteady]_vars

\* ------------------------------------------------ UserStatusFrame (dashboard.py)
StaleUnits == STALE_MINUTES * 60 * SCALE

DashUsers == {"u1", "u2"}

\* a field that may be missing: no value, or one
Optional(values) == {<< >>} \cup {<<v>> : v \in values}

WithField(doc, k, opt) == IF opt = << >> THEN doc ELSE Put(doc, k, opt[1])

StatusValues == {"Online", "Idle", "Offline"}

\* stored heartbeats: older than, exactly at, and younger than the threshold at time 0
LastSeenValues ==
    {[wall |-> 0 - StaleUnits - 1, tz |-> "naive"],
     [wall |-> 0 - StaleUnits, tz |-> "naive"],
     [wall |-> 1 - StaleUnits, tz |-> "utc"]}

DocsOf(u, dates, reasons, apps) ==
    {WithField(WithField(WithField(WithField([user_id |-> u, date |-> d],
        "status", st), "last_seen", ls), "offline_reason", r), "applications", a) :
        d \in dates, st \in Optional(StatusValues), ls \in Optional(LastSeenValues),
        r \in Optional(reasons), a \in Optional(apps)}

DocId(doc) == <<doc.user_id, doc.date>>

\* the documents in the store when the dashboard looks
DashCollections ==
    {[id \in {DocId(d) : d \in docs} |-> CHOOSE d \in docs : DocId(d) = id] :
        docs \in {{d1, d2} : d1 \in DocsOf("u1", {"day1"}, {"User exit"},
                                              {[n \in {AppB} |-> 3 * SCALE]}),
                              d2 \in DocsOf("u2", {"day1", "day0"}, {}, {})}}

\* the dashboard's window opens on one of the given stores
DashInit(collections) ==
    /\ now = 0
    /\ wake = 0
    /\ pc = "start"
    /\ running = TRUE
    /\ current_app = EmptyName
    /\ start_time = 0
    /\ idle = FALSE
    /\ potential_next_app = EmptyName
    /\ switch_pending_time = NoTime
    /\ idle_seconds = 0
    /\ active_app_name = EmptyName
    /\ status_label = <<"Initializing...">>
    /\ gpc = "mainloop"
    /\ stop_duration = 0
    /\ stop_idle = FALSE
    /\ join_deadline = NoTime
    /\ client = TRUE
    /\ collection \in collections
    /\ run_name = EmptyName
    /\ run_start = NoTime
    /\ s_idle = FALSE
    /\ snap = NoSnap
    /\ tick_calls = << >>
    /\ spent = EmptyDict
    /\ seg = 1
    /\ flushed = EmptyDict
    /\ stop_seg = 0
    /\ reverts = 0
    /\ scheduled = << >>
    /\ user_tree = << >>
    /\ scan_time = NoTime
    /\ last_scan = "none"
    /\ tree = << >>

InitDash == DashInit(DashCollections)

\* lines 171-172: a datetime without zone is read as UTC
AsUtc(last_seen) ==
    IF last_seen.tz = "naive" THEN [last_seen EXCEPT !.tz = "utc"] ELSE last_seen

\* mutant: stale from the threshold on, not only past it
IsStale_AtThreshold(status, seen, t) ==
    /\ status = "Online"
    /\ seen # << >>
    /\ t - AsUtc(seen[1]).wall >= StaleUnits

\* line 174
IsStale(status, seen, t) ==
    /\ status = "Online"
    /\ seen # << >>
    /\ t - AsUtc(seen[1]).wall > StaleUnits

\* format_seconds(sum(applications.values())): whole seconds
FormatSeconds(units) == units \div SCALE

SumValues(d) == SumOver(DOMAIN d, d)

\* lines 167-177: the row shown for one document
Derive(doc, t) ==
    LET status == Get(doc, "status", "Offline")
        reason == Get(doc, "offline_reason", "")
        seen == IF "last_seen" \in DOMAIN doc THEN <<doc["last_seen"]>> ELSE << >>
        stale == IsStale(status, seen, t)
    IN  [id |-> doc["user_id"],
         status |-> IF stale THEN "Offline" ELSE status,
         reason |-> IF stale THEN "Connection timeout" ELSE reason,
         time |-> FormatSeconds(SumValues(Get(doc, "applications", EmptyDict)))]

\* line 171: last_seen.tzinfo of a value that is no datetime raises AttributeError
Raises(doc) == "last_seen" \in DOMAIN doc /\ doc["last_seen"].tz = "str"

\* the orders in which the cursor can hand out the documents of a set of ids
Orders(ids) ==
    {order \in [1 .. Cardinality(ids) -> ids] :
        \A i, j \in DOMAIN order : i # j => order[i] # order[j]}

\* lines 162-164: today's documents, in the order of the cursor
UsersData(t, order) == [i \in DOMAIN order |-> collection[order[i]]]

\* mutant: the scan stores what it derived
UpdateUserList_WritesBack ==
    /\ Len(scheduled) < 1
    /\ \E order \in Orders({id \in DOMAIN collection :
                                collection[id]["date"] = TodayStr(now)}) :
          LET users_data == UsersData(now, order)
              user_statuses == [i \in DOMAIN users_data |-> Derive(users_data[i], now)]
          IN  /\ \A i \in DOMAIN users_data : ~Raises(users_data[i])
              /\ scheduled' = Append(scheduled,
                                     [user_statuses |-> user_statuses, at |-> now])
              /\ collection' =
                    [id \in DOMAIN collection |->
                        IF \E i \in DOMAIN order : order[i] = id
                        THEN Put(Put(collection[id], "status", Derive(collection[id], now).status),
                                 "offline_reason", Derive(collection[id], now).reason)
                        ELSE collection[id]]
    /\ last_scan' = "ok"
    /\ UNCHANGED <<now, wake, tracker_vars, gui_vars, client, observer_vars,
                   user_tree, scan_time, tree>>

\* lines 160-181 (the 30 s loop of lines 102-109 and the Refresh button call it)
UpdateUserList ==
    /\ Len(scheduled) < 1
    /\ \E order \in Orders({id \in DOMAIN collection :
                                collection[id]["date"] = TodayStr(now)}) :
          LET users_data == UsersData(now, order)
              user_statuses == [i \in DOMAIN users_data |-> Derive(users_data[i], now)]
          IN  /\ \A i \in DOMAIN users_data : ~Raises(users_data[i])
              /\ scheduled' = Append(scheduled,
                                     [user_statuses |-> user_statuses, at |-> now])
    /\ last_scan' = "ok"
    /\ UNCHANGED <<now, wake, tracker_vars, gui_vars, client, collection, observer_vars,
                   user_tree, scan_time, tree>>

\* lines 160-181 when building a row raises: the except of line 180 ends the call,
\* line 179 is not reached and the rows shown stay as they were
UpdateUserListRaises ==
    /\ Len(scheduled) < 1
    /\ \E id \in DOMAIN collection :
          /\ collection[id]["date"] = TodayStr(now)
          /\ Raises(collection[id])
    /\ last_scan' = "raised"
    /\ UNCHANGED <<now, wake, tracker_vars, gui_vars, client, collection, observer_vars,
                   scheduled, user_tree, scan_time, tree>>

\* sorted(user_statuses, key=lambda u: u['id'])
SortedById(rows) ==
    IF Len(rows) = 2 /\ rows[1].id = "u2" /\ rows[2].id = "u1"
    THEN <<rows[2], rows[1]>>
    ELSE rows

\* lines 183-186
PopulateTree ==
    /\ scheduled # << >>
    /\ user_tree' = SortedById(Head(scheduled).user_statuses)
    /\ scan_time' = Head(scheduled).at
    /\ scheduled' = Tail(scheduled)
    /\ UNCHANGED <<now, wake, tracker_vars, gui_vars, client, collection, observer_vars,
                   last_scan, tree>>

\* the wall clock of the dashboard
DashClock ==
    /\ now < DashTime
    /\ now' = now + 1
    /\ UNCHANGED <<wake, tracker_vars, gui_vars, client, collection, observer_vars,
                   dashboard_vars, tree>>

NextDash == UpdateUserList \/ PopulateTree \/ DashClock

SpecDash == InitDash /\ [][NextDash]_vars

\* ------------------------------------------------ a record the scan cannot read
\* a last_seen that some writer stored as text
TextSeen == [wall |-> 0, tz |-> "str"]

\* the stores of DashCollections, with last_seen as text in any of the records
ScanCollections ==
    {[id \in DOMAIN coll |-> IF id \in bad THEN Put(coll[id], "last_seen", TextSeen)
                                            ELSE coll[id]] :
        coll \in DashCollections, bad \in SUBSET {<<"u1", "day1">>, <<"u2", "day1">>}}

InitScan == DashInit(ScanCollections)

NextScan == UpdateUserList \/ UpdateUserListRaises \/ PopulateTree \/ DashClock

SpecScan == InitScan /\ [][NextScan]_vars

\* ------------------------------------------------ App.update_usage_display
\* the characters an application name is made of: a letter, and the two the
\* escaping is about
NameChars == {"a", ".", "_"}

EscNames == UNION {[1 .. n -> NameChars] : n \in 1 .. MaxNameLen}

\* lines 30-35: whole seconds
format_seconds(units) == units \div SCALE

\* line 301
Unescape(app_name_safe) == Replace(app_name_safe, "_", ".")

\* lines 115-130, called for an application of any name
NameFlush ==
    /\ Len(tick_calls) < MaxNameCalls
    /\ \E name \in EscNames : Flush(name, 1 * SCALE)
    /\ UNCHANGED <<now, wake, tracker_vars, gui_vars, client, dashboard_vars, tree,
                   stream_vars, snap, spent, seg, stop_seg, reverts>>

\* lines 285-310: the rows of today's applications, longest first
UpdateUsageDisplay ==
    /\ client
    /\ LET data == Get(collection, <<user_id, TodayStr(now)>>, EmptyDict)
           apps == Get(data, "applications", EmptyDict)
       IN  \E app_usage \in Orders(DOMAIN apps) :
              /\ \A i, j \in DOMAIN app_usage :
                    i < j => apps[app_usage[i]] >= apps[app_usage[j]]
              /\ tree' = [i \in DOMAIN app_usage |->
                            [app |-> Unescape(app_usage[i]),
                             time |-> format_seconds(apps[app_usage[i]])]]
    /\ UNCHANGED <<now, wake, tracker_vars, gui_vars, client, collection, observer_vars,
                   dashboard_vars>>

NextNames == NameFlush \/ UpdateUsageDisplay

SpecNames == Init /\ [][NextNames]_vars

\* ------------------------------------------------ reading the ledger
\* what one document holds for a classification
FieldOf(doc, c) ==
    IF c = Cls(TRUE, EmptyName)
    THEN Get(doc, "total_idle_seconds", 0)
    ELSE Get(Get(doc, "applications", EmptyDict), Replace(c[2], ".", "_"), 0)

\* what the store holds for a classification, over all days
Stored(c) ==
    SumOver(DOMAIN collection, [id \in DOMAIN collection |-> FieldOf(collection[id], c)])

\* the elapsed time of the open segment, if it is of this classification
Open(c) == IF Cls(idle, current_app) = c THEN now - start_time ELSE 0

Spent(c) == Get(spent, c, 0)

Classes == {Cls(TRUE, EmptyName)} \cup {Cls(FALSE, a) : a \in AppNames}

CreditedClasses == Classes \ {Cls(FALSE, Unknown), Cls(FALSE, EmptyName)}

Within(x, tolerance) == x <= tolerance /\ 0 - x <= tolerance

BetweenTicks == pc = "sleeping" /\ gpc = "mainloop"

OnceEach == \A s \in DOMAIN flushed : flushed[s] <= 1

\* the tick's work is done and its status text is about to be shown
TickEnd == pc = "status" /\ snap.valid

NoPending == potential_next_app = EmptyName /\ switch_pending_time = NoTime

SegmentKept ==
    /\ tick_calls = << >>
    /\ idle = snap.idle
    /\ current_app = snap.current_app
    /\ start_time = snap.start_time

C2_StopCreditsOnce ==
    (gpc \in {"join", "destroyed"} /\ pc = "done") =>
        \A c \in CreditedClasses : Within(Stored(c) - Spent(c), 1 * SCALE)

\* C3: in a tick that starts Active and samples not idle, while the sampled app has
\* been in focus for no more than SWITCH_CONFIRM_SECONDS, no switch commits: nothing
\* is flushed and the open segment, its app and its start are kept; a sample that
\* is back at the current app leaves no pending switch.
C3_FlickerNeverCommits ==
    (/\ TickEnd
     /\ ~snap.idle
     /\ ~(idle_seconds > IDLE_THRESHOLD_SECONDS)
     /\ now - run_start <= SWITCH_CONFIRM_SECONDS * SCALE) =>
        /\ SegmentKept
        /\ (active_app_name = current_app => NoPending)

C3_Witness ==
    /\ TickEnd
    /\ ~snap.idle
    /\ snap.potential_next_app = AppB
    /\ active_app_name = AppA
    /\ current_app = AppA
    /\ reverts >= 2
    /\ start_time = 0
    /\ now >= 4 * SCALE
    /\ collection = EmptyDict

\* C4: in a tick that starts Active(A) and samples not idle, when the sampled app B
\* has been in focus for more than SWITCH_CONFIRM_SECONDS, exactly one flush is
\* issued, for A with duration (first sample of B) - start_time, and the tick ends
\* Active(B) with start_time at the first sample of B and no pending switch; a
\* sample of the current app commits nothing.
C4_SustainedSwitchCommitsOnce ==
    /\ (/\ TickEnd
        /\ ~snap.idle
        /\ ~(idle_seconds > IDLE_THRESHOLD_SECONDS)
        /\ active_app_name # snap.current_app
        /\ now - run_start > SWITCH_CONFIRM_SECONDS * SCALE) =>
           /\ tick_calls = << <<snap.current_app, run_start - snap.start_time>> >>
           /\ current_app = active_app_name
           /\ start_time = run_start
           /\ ~idle
           /\ NoPending
    /\ (/\ TickEnd
        /\ ~snap.idle
        /\ ~(idle_seconds > IDLE_THRESHOLD_SECONDS)
        /\ active_app_name = snap.current_app) => SegmentKept

C4_Witness ==
    /\ TickEnd
    /\ ~snap.idle
    /\ snap.current_app = AppA
    /\ active_app_name = AppB
    /\ now - run_start > SWITCH_CONFIRM_SECONDS * SCALE
    /\ run_start - snap.start_time >= 1 * SCALE
    /\ current_app = AppB
    /\ Stored(Cls(FALSE, AppA)) = run_start - snap.start_time

\* C5: a tick whose sample rises above the idle threshold flushes exactly the open
\* Active segment and ends Idle with start_time = now and no pending switch; a tick
\* whose sample falls back flushes exactly the Idle segment and ends Active with the
\* app just sampled, start_time = now and no pending switch; a tick that stays
\* above the threshold flushes nothing.
C5_IdleEpisodeFlushesOnce ==
    /\ (TickEnd /\ ~snap.s_idle /\ idle_seconds > IDLE_THRESHOLD_SECONDS) =>
           /\ tick_calls = << <<snap.current_app, now - snap.start_time>> >>
           /\ idle
           /\ current_app = snap.current_app
           /\ start_time = now
           /\ NoPending
    /\ (TickEnd /\ snap.s_idle /\ ~(idle_seconds > IDLE_THRESHOLD_SECONDS)) =>
           /\ tick_calls = << <<IdleName, now - snap.start_time>> >>
           /\ ~idle
           /\ current_app = active_app_name
           /\ start_time = now
           /\ NoPending
    /\ (TickEnd /\ snap.s_idle /\ idle_seconds > IDLE_THRESHOLD_SECONDS) =>
           SegmentKept

C5_Witness ==
    /\ TickEnd
    /\ snap.s_idle
    /\ ~(idle_seconds > IDLE_THRESHOLD_SECONDS)
    /\ snap.current_app = AppA
    /\ active_app_name = AppB
    /\ current_app = AppB
    /\ Stored(Cls(TRUE, EmptyName)) >= 1 * SCALE
    /\ Stored(Cls(FALSE, AppA)) >= 1 * SCALE

\* every counter a call of update_database can touch
AggKeys ==
    {<<id, c>> : id \in {<<user_id, "day1">>, <<user_id, "day2">>},
                 c \in {Cls(TRUE, EmptyName)} \cup {Cls(FALSE, n) : n \in AggNames}}

Value(coll, k) == IF k[1] \in DOMAIN coll THEN FieldOf(coll[k[1]], k[2]) ELSE 0

Changed(before, after) == {k \in AggKeys : Value(before, k) # Value(after, k)}

\* the counter the claim names for a flush at time t
CounterOf(activity_name, t) ==
    <<<<user_id, TodayStr(t)>>,
      IF activity_name = IdleName THEN Cls(TRUE, EmptyName) ELSE Cls(FALSE, activity_name)>>

\* C6: a call of update_database changes nothing in the store if its duration is
\* below one second, or if it is for an app and the name is empty or "Unknown";
\* every other call adds exactly its duration to exactly one counter, the one of
\* its classification in today's record (with the store client connected).
C6_SuppressionRule ==
    [][Len(tick_calls') = Len(tick_calls) + 1 =>
        LET name == tick_calls'[Len(tick_calls')][1]
            duration == tick_calls'[Len(tick_calls')][2]
        IN  IF \/ duration < 1 * SCALE
               \/ (name # IdleName /\ name \in {EmptyName, Unknown})
            THEN collection' = collection
            ELSE /\ Changed(collection, collection') = {CounterOf(name, now)}
                 /\ Value(collection', CounterOf(name, now))
                        = Value(collection, CounterOf(name, now)) + duration]_vars

C6_Witness ==
    /\ tick_calls = << <<Unknown, 1 * SCALE>>, <<AppA, 1 * SCALE - 1>>, <<AppA, 1 * SCALE>> >>
    /\ Stored(Cls(FALSE, AppA)) = 1 * SCALE
    /\ Stored(Cls(FALSE, Unknown)) = 0
    /\ Cardinality(DOMAIN collection) = 1

\* the presence fields of today's record of the user
StoredStatus ==
    Get(Get(collection, <<user_id, TodayStr(now)>>, EmptyDict), "status", "absent")

LastSeen ==
    Get(Get(collection, <<user_id, TodayStr(now)>>, EmptyDict), "last_seen", NoTime)

\* C7: while the tracker runs, once 30 seconds have passed the record holds a
\* last_seen that is at most 30 seconds old, transitions or not.
C7_HeartbeatEvery30s ==
    (running /\ pc # "done" /\ now >= 30 * SCALE) =>
        /\ LastSeen # NoTime
        /\ now - LastSeen <= 30 * SCALE

\* C8: once on_closing() has returned, the stored status of the user is Offline.
C8_OfflineAfterStop ==
    gpc = "destroyed" => StoredStatus = "Offline"

\* C9: between ticks, the stored status is the classification of the machine:
\* Idle while idle, Online while Active.
C9_PresenceFollowsMachine ==
    BetweenTicks => StoredStatus = (IF idle THEN "Idle" ELSE "Online")

\* C10: every record of the day has a row, and every row shown is Offline with
\* reason "Connection timeout" if the stored status is Online and the heartbeat was
\* more than 2 minutes old when the rows were derived, and otherwise shows the
\* stored status and reason (Offline and no reason where the record has none).
C10_StalenessDerivation ==
    scan_time # NoTime =>
        /\ \A id \in DOMAIN collection :
              collection[id]["date"] = TodayStr(scan_time) =>
                  \E i \in DOMAIN user_tree : user_tree[i].id = id[1]
        /\ \A i \in DOMAIN user_tree :
              LET row == user_tree[i]
                  doc == collection[<<row.id, TodayStr(scan_time)>>]
              IN  IF /\ "status" \in DOMAIN doc
                     /\ doc["status"] = "Online"
                     /\ "last_seen" \in DOMAIN doc
                     /\ scan_time - doc["last_seen"].wall > 2 * 60 * SCALE
                  THEN row.status = "Offline" /\ row.reason = "Connection timeout"
                  ELSE /\ row.status = Get(doc, "status", "Offline")
                       /\ row.reason = Get(doc, "offline_reason", "")

C10_Witness ==
    LET d1 == Get(collection, <<"u1", "day1">>, EmptyDict)
        d2 == Get(collection, <<"u2", "day1">>, EmptyDict)
    IN  /\ scan_time # NoTime
        /\ Len(user_tree) = 2
        /\ Get(d1, "status", "absent") = "Online"
        /\ "last_seen" \in DOMAIN d1
        /\ scan_time - d1["last_seen"].wall = 2 * 60 * SCALE + 1
        /\ user_tree[1].id = "u1"
        /\ user_tree[1].status = "Offline"
        /\ user_tree[1].reason = "Connection timeout"
        /\ Get(d2, "status", "absent") = "Online"
        /\ "last_seen" \in DOMAIN d2
        /\ scan_time - d2["last_seen"].wall = 2 * 60 * SCALE
        /\ user_tree[2].id = "u2"
        /\ user_tree[2].status = "Online"

\* C11: the scan of the user records and the display of its rows leave every stored
\* record as it was (status, last_seen, offline_reason and counters), also when a
\* stale Online user is shown as Offline.
C11_ScanIsReadOnly == [][collection' = collection]_vars

C11_Witness ==
    LET d1 == Get(collection, <<"u1", "day1">>, EmptyDict)
    IN  /\ scan_time # NoTime
        /\ Len(user_tree) >= 1
        /\ user_tree[1].id = "u1"
        /\ user_tree[1].status = "Offline"
        /\ user_tree[1].reason = "Connection timeout"
        /\ Get(d1, "status", "absent") = "Online"
        /\ "last_seen" \in DOMAIN d1
        /\ "offline_reason" \notin DOMAIN d1
        /\ scan_time - d1["last_seen"].wall > StaleUnits

\* C12: a store write that fails does not end the sampling loop: the thread of
\* run() has ended only if a stop was requested.
C12_WriteFailureNotFatal == pc \in {"done", "raised"} => ~running

\* the application names update_database was called with
WrittenNames == {tick_calls[j][1] : j \in DOMAIN tick_calls}

\* C13: every name the usage display shows is the name of an application that was
\* written, and the names written have one counter each.
C13_EscapingReversible ==
    /\ \A i \in DOMAIN tree : tree[i].app \in WrittenNames
    /\ Cardinality(DOMAIN Get(Get(collection, <<user_id, TodayStr(now)>>, EmptyDict),
                              "applications", EmptyDict))
          = Cardinality(WrittenNames)

\* C14: after run() has started, every step that changes the idle flag, current_app
\* or start_time comes after the one flush of the tick, which was issued for the
\* segment open when the tick began, with a duration counted from that segment's
\* start_time (to now at an idle entry or exit, to the candidate's first sample at a
\* switch); the step itself issues no flush.
C14_FlushThenTransition ==
    [][(/\ pc # "start"
        /\ (idle' # idle \/ current_app' # current_app \/ start_time' # start_time)) =>
           /\ snap.valid
           /\ tick_calls' = tick_calls
           /\ Len(tick_calls) = 1
           /\ tick_calls[1][1] = (IF snap.idle THEN IdleName ELSE snap.current_app)
           /\ tick_calls[1][2] = (IF pc \in {"l95", "l96"}
                                  THEN snap.switch_pending_time
                                  ELSE now) - snap.start_time]_vars

C14_Witness ==
    /\ pc = "status"
    /\ snap.valid
    /\ ~snap.idle
    /\ snap.current_app = AppB
    /\ snap.switch_pending_time # NoTime
    /\ current_app = AppA
    /\ start_time = snap.switch_pending_time
    /\ start_time > snap.start_time
    /\ tick_calls = << <<AppB, snap.switch_pending_time - snap.start_time>> >>

\* C15: no step lowers a counter of a record (applications[app] or
\* total_idle_seconds), no step removes a record, and a counter that changes grows
\* by the positive duration of the call that changed it.
C15_CountersNeverDecrease ==
    [][/\ \A k \in AggKeys : Value(collection', k) >= Value(collection, k)
       /\ DOMAIN collection \subseteq DOMAIN collection'
       /\ \A k \in Changed(collection, collection') :
             /\ Len(tick_calls') = Len(tick_calls) + 1
             /\ tick_calls'[Len(tick_calls')][2] > 0
             /\ Value(collection', k)
                   = Value(collection, k) + tick_calls'[Len(tick_calls')][2]]_vars

C15_Witness ==
    /\ tick_calls = << <<AppA, MaxDuration>>, <<IdleName, 1 * SCALE>>, <<AppA, 1 * SCALE>> >>
    /\ Cardinality(DOMAIN collection) = 1
    /\ Stored(Cls(FALSE, AppA)) = MaxDuration + 1 * SCALE
    /\ Stored(Cls(TRUE, EmptyName)) = 1 * SCALE

\* C16: between ticks a pending switch exists only while the machine is not Idle,
\* with a candidate that is not current_app; at the end of a tick there is none if
\* the machine is Idle, if the sample was current_app, or if the tick committed a
\* switch.
C16_PendingSwitchInvariant ==
    /\ pc = "sleeping" =>
          (~NoPending => (~idle /\ potential_next_app # current_app))
    /\ TickEnd =>
          /\ idle => NoPending
          /\ (~idle /\ active_app_name = current_app) => NoPending
          /\ (~snap.idle /\ ~idle /\ current_app # snap.current_app) => NoPending
          /\ ~NoPending => (potential_next_app = active_app_name /\ ~idle)

C16_Witness ==
    /\ TickEnd
    /\ ~snap.idle
    /\ snap.potential_next_app = AppB
    /\ snap.switch_pending_time # NoTime
    /\ snap.current_app = AppA
    /\ idle
    /\ NoPending

\* today's record, its idle total and its application counters
DocNow(coll) == Get(coll, <<user_id, TodayStr(now)>>, EmptyDict)

IdleTotal(coll) == Get(DocNow(coll), "total_idle_seconds", 0)

AppCounters(coll) == Get(DocNow(coll), "applications", EmptyDict)

\* C17: a flush made by run() while the machine is Active leaves total_idle_seconds
\* and the counter of every other application as they were; a flush made while it
\* is Idle leaves every application counter as it was.
C17_FlushTouchesOnlyItsCounter ==
    [][Len(tick_calls') = Len(tick_calls) + 1 =>
          IF idle
          THEN AppCounters(collection') = AppCounters(collection)
          ELSE /\ IdleTotal(collection') = IdleTotal(collection)
               /\ \A k \in DOMAIN AppCounters(collection') :
                     k # Replace(current_app, ".", "_") =>
                        /\ k \in DOMAIN AppCounters(collection)
                        /\ AppCounters(collection')[k] = AppCounters(collection)[k]]_vars

\* C18: in a tick that starts Active with a pending candidate B and samples a third
\* app C, the pending switch restarts with candidate C first seen now, and nothing
\* is flushed or changed in the open segment; every tick that commits a switch
\* commits the app sampled, which has been in focus without interruption for more
\* than SWITCH_CONFIRM_SECONDS, flushes the old app up to the first sample of that
\* run (the time of earlier candidates included) and starts the new segment there.
C18_CandidateChangeRestartsTimer ==
    /\ (/\ TickEnd
        /\ ~snap.idle
        /\ ~(idle_seconds > IDLE_THRESHOLD_SECONDS)
        /\ snap.potential_next_app # EmptyName
        /\ active_app_name # snap.current_app
        /\ active_app_name # snap.potential_next_app) =>
           /\ potential_next_app = active_app_name
           /\ switch_pending_time = now
           /\ SegmentKept
    /\ (/\ TickEnd
        /\ ~snap.idle
        /\ ~idle
        /\ current_app # snap.current_app) =>
           /\ current_app = active_app_name
           /\ snap.potential_next_app = active_app_name
           /\ snap.switch_pending_time = run_start
           /\ now - run_start > SWITCH_CONFIRM_SECONDS * SCALE
           /\ tick_calls = << <<snap.current_app, run_start - snap.start_time>> >>
           /\ start_time = run_start

C18_Witness ==
    /\ TickEnd
    /\ ~snap.idle
    /\ snap.current_app = AppA
    /\ snap.potential_next_app = AppB
    /\ snap.switch_pending_time = now - SWITCH_CONFIRM_SECONDS * SCALE
    /\ active_app_name = Unknown
    /\ potential_next_app = Unknown
    /\ switch_pending_time = now
    /\ current_app = AppA
    /\ start_time = snap.start_time

\* the sum of all counters of the record of a day
DayTotal(coll, day) ==
    LET doc == Get(coll, <<user_id, day>>, EmptyDict)
    IN  Get(doc, "total_idle_seconds", 0) + SumValues(Get(doc, "applications", EmptyDict))

\* C19: a step that changes the store changes only the record of (user_id, the date
\* at that step): every other record is as it was, and when the step is a flush of
\* run() the record of that date grows by the whole duration of the flush, whenever
\* the segment started.
C19_KeyedByFlushDate ==
    [][collection' # collection =>
          /\ \A id \in DOMAIN collection' :
                id # <<user_id, TodayStr(now)>> =>
                    (id \in DOMAIN collection /\ collection'[id] = collection[id])
          /\ DOMAIN collection \subseteq DOMAIN collection'
          /\ \A id \in DOMAIN collection' :
                /\ collection'[id]["user_id"] = id[1]
                /\ collection'[id]["date"] = id[2]
          /\ Len(tick_calls') = Len(tick_calls) + 1 =>
                DayTotal(collection', TodayStr(now))
                   = DayTotal(collection, TodayStr(now))
                       + tick_calls'[Len(tick_calls')][2]]_vars

C19_Witness ==
    /\ TickEnd
    /\ now >= Midnight * SCALE
    /\ snap.start_time < Midnight * SCALE - 1 * SCALE
    /\ snap.current_app = AppA
    /\ idle
    /\ tick_calls = << <<AppA, now - snap.start_time>> >>
    /\ <<user_id, "day1">> \notin DOMAIN collection
    /\ Stored(Cls(FALSE, AppA)) = now - snap.start_time
    /\ DayTotal(collection, "day2") = now - snap.start_time

\* C20: once stop() has set running to False the thread of run() reaches its end,
\* and from then on the loop starts no iteration: only an iteration that had
\* already passed the loop test still takes its sample.
C20_StopTerminates ==
    /\ (~running) ~> (pc = "done")
    /\ [][(~running /\ pc # "sample") => pc' # "sample"]_vars

C20_Witness ==
    /\ pc = "done"
    /\ ~running
    /\ gpc = "destroyed"
    /\ idle
    /\ now > join_deadline - JOIN_TIMEOUT_SECONDS * SCALE
    /\ status_label[1] = "Status: Idle"

\* C21: when the latest scan could not read the record of some user, the rows shown
\* have one row for every record of today that can be read and none for a record
\* that cannot.
C21_FailedReadSkipsOnlyThatUser ==
    (last_scan = "raised" /\ scheduled = << >>) =>
        \A id \in DOMAIN collection :
            collection[id]["date"] = TodayStr(now) =>
                (~Raises(collection[id]) <=> \E i \in DOMAIN user_tree : user_tree[i].id = id[1])

\* C22: no tick ends in an exception at the comparison with the pending time, and
\* between ticks potential_next_app is empty exactly when switch_pending_time is
\* unset.
C22_PendingTimeSetWhenRead ==
    /\ pc # "raised"
    /\ pc = "sleeping" => ((potential_next_app = EmptyName) <=> (switch_pending_time = NoTime))

\* what a tick that committed a switch leaves behind
Committed == TickEnd /\ ~snap.idle /\ ~idle /\ current_app # snap.current_app

\* C23 as stated: in every state, a pending switch was first seen no earlier than
\* the open segment's start_time.
C23_AsStated ==
    switch_pending_time # NoTime => switch_pending_time >= start_time

\* C23 amended: the same in every state but the one inside the idle entry, after
\* start_time is set (line 71) and before the pending switch is cleared (line 72);
\* and a tick that commits a switch flushes a duration that is not negative and
\* starts the new segment no earlier than the old one.
C23_PendingNotBeforeSegment ==
    /\ (pc # "l72" /\ switch_pending_time # NoTime) => switch_pending_time >= start_time
    /\ Committed =>
          /\ tick_calls[1][2] >= 0
          /\ start_time >= snap.start_time
          /\ start_time = snap.start_time + tick_calls[1][2]

C23_Witness ==
    /\ Committed
    /\ snap.current_app = AppB
    /\ current_app = AppA
    /\ snap.switch_pending_time = snap.start_time
    /\ start_time = snap.start_time
    /\ tick_calls = << <<AppB, 0>> >>
    /\ now - start_time > SWITCH_CONFIRM_SECONDS * SCALE

\* a tick that began Idle and sampled idle, or began Active and sampled, not idle,
\* the current app, a new candidate, or the pending candidate within the threshold
NothingToCommit ==
    \/ snap.idle /\ idle_seconds > IDLE_THRESHOLD_SECONDS
    \/ /\ ~snap.idle
       /\ ~(idle_seconds > IDLE_THRESHOLD_SECONDS)
       /\ \/ active_app_name = snap.current_app
          \/ snap.potential_next_app # active_app_name
          \/ now - snap.switch_pending_time <= SWITCH_CONFIRM_SECONDS * SCALE

\* C24: a tick with nothing to commit makes no update_database call and ends with
\* the idle flag, current_app and start_time it began with.
C24_QuietTickChangesNothing ==
    (TickEnd /\ NothingToCommit) => SegmentKept

C24_Witness ==
    /\ TickEnd
    /\ ~snap.idle
    /\ snap.current_app = AppA
    /\ snap.potential_next_app = AppB
    /\ active_app_name = AppB
    /\ now - snap.switch_pending_time = SWITCH_CONFIRM_SECONDS * SCALE
    /\ potential_next_app = AppB
    /\ switch_pending_time = snap.switch_pending_time
    /\ SegmentKept
    /\ Stored(Cls(TRUE, EmptyName)) >= 1 * SCALE

====
